---- MODULE Spec2Model ----
(***************************************************************************)
(* A model of bot.py: the vocabulary reminder bot.                         *)
(*                                                                         *)
(* State: the three tables (users, vocab, answers), the scheduler's job    *)
(* store, the wall clock, the position of the one handler that can be in   *)
(* the middle of schedule_today's sampling loop, and the messages the last *)
(* handler delivered.                                                      *)
(*                                                                         *)
(* Time is an integer count of minutes since 00:00 UTC of day 0.  A local  *)
(* wall time is that count plus the zone's UTC offset; its date, hour and  *)
(* minute are computed from it.                                            *)
(***************************************************************************)
EXTENDS Integers, Sequences, FiniteSets, Bags, TLC

VARIABLES
    users,      \* chat_id -> row of table users, or NoRow
    vocab,      \* table vocab: a sequence of rows, row i has id i
    answers,    \* table answers: a sequence of rows, row i has id i
    jobs,       \* scheduler job store: a bag of [chat_id, run_at]
    clock,      \* the wall clock, minutes UTC
    pc,         \* "idle", or "plan" while schedule_today's while-loop runs
    h,          \* the running schedule_today call (NoCall when idle)
    out,        \* what the current / last handler delivered of the messages modelled
    prompted,   \* chat_id -> id of the item the last send_prompt showed (0: none)
    exc,        \* the exception the current / last handler ended with ("": none)
    IS_PG       \* the backend in use: PostgreSQL (TRUE) or SQLite (FALSE)

vars == <<users, vocab, answers, jobs, clock, pc, h, out, prompted, exc, IS_PG>>

----------------------------------------------------------------------------
(* Bounds of the model *)

\* number of 10-minute clock ticks explored
MaxTicks == 2
\* rows of table vocab
MaxVocab == 2
\* rows of table answers
MaxAnswers == 3
\* a handler that plans is taken only while fewer than this many jobs are stored
MaxJobs == 2

----------------------------------------------------------------------------
(* Program constants *)

DEFAULT_TZ == "Europe/Kyiv"
DefaultStartHour == 10
DefaultEndHour == 21
DefaultDailyCount == 3
MaxDailyCount == 12
MinDailyCount == 1
MINUTES == {5, 15, 25, 35, 45}

Chats == {1, 2}
Solo == {1}

\* the model's first instant: 18:15 UTC of day 0 (20:15 in Kyiv, 23:15 in Tashkent)
StartClock == 18 * 60 + 15

\* an absent row of table users
NoRow == [tz |-> "", start_hour |-> 0, end_hour |-> 0, daily_count |-> 0, exists |-> FALSE]
\* SQL NULL in column last_seen
NULL == -1

----------------------------------------------------------------------------
(* Time zones and local time (pytz, datetime) *)

\* zones pytz knows, with their UTC offsets in minutes on the modelled day
KnownTz == {"Europe/Kyiv", "Asia/Tashkent"}

UtcOffset(tz) ==
    CASE tz = "Europe/Kyiv" -> 2 * 60
      [] tz = "Asia/Tashkent" -> 5 * 60
      [] OTHER -> 0

\* datetime.now(tz) / astimezone(tz): the local wall time of instant t
LocalOf(t, tz) == t + UtcOffset(tz)
DateOf(local) == local \div (24 * 60)
HourOf(local) == (local % (24 * 60)) \div 60
MinuteOf(local) == local % 60

\* (a localize that takes the wall time for UTC)
LocalizeAsUtc(date, hour, minute, tz) ==
    date * 24 * 60 + hour * 60 + minute

\* tz.localize(datetime.combine(date, time(hour, minute))): the instant
Localize(date, hour, minute, tz) ==
    date * 24 * 60 + hour * 60 + minute - UtcOffset(tz)

\* time(hour, minute) raises ValueError unless hour is in 0..23
ValidHour(hour) == hour \in 0..23

Max(a, b) == IF a >= b THEN a ELSE b
Min(a, b) == IF a <= b THEN a ELSE b

----------------------------------------------------------------------------
(* Text: a word is a sequence of one-character strings *)

Digits == {"0", "1", "2", "3", "4", "5", "6", "7", "8", "9"}

DigitVal(ch) ==
    CASE ch = "0" -> 0 [] ch = "1" -> 1 [] ch = "2" -> 2 [] ch = "3" -> 3
      [] ch = "4" -> 4 [] ch = "5" -> 5 [] ch = "6" -> 6 [] ch = "7" -> 7
      [] ch = "8" -> 8 [] ch = "9" -> 9

\* str.isdigit()
IsDigits(w) == Len(w) > 0 /\ \A i \in 1..Len(w) : w[i] \in Digits

RECURSIVE NatOf(_)
NatOf(w) ==
    IF Len(w) = 0 THEN 0
    ELSE 10 * NatOf(SubSeq(w, 1, Len(w) - 1)) + DigitVal(w[Len(w)])

\* int(w) succeeds
IsInt(w) == IsDigits(w) \/ (Len(w) > 1 /\ w[1] = "-" /\ IsDigits(Tail(w)))

\* int(w)
IntOf(w) == IF w[1] = "-" THEN 0 - NatOf(Tail(w)) ELSE NatOf(w)

\* str.strip(): drop leading and trailing blanks
RECURSIVE LStrip(_)
LStrip(w) == IF Len(w) > 0 /\ w[1] = " " THEN LStrip(Tail(w)) ELSE w

RECURSIVE RStrip(_)
RStrip(w) ==
    IF Len(w) > 0 /\ w[Len(w)] = " " THEN RStrip(SubSeq(w, 1, Len(w) - 1)) ELSE w

\* (a strip that leaves the trailing blanks)
StripLeftOnly(w) == LStrip(w)

\* str.strip()
Strip(w) == RStrip(LStrip(w))

\* a word of digits without its leading zeros
RECURSIVE StripZeros(_)
StripZeros(w) == IF Len(w) > 1 /\ w[1] = "0" THEN StripZeros(Tail(w)) ELSE w

\* a <= b for two words of digits of one length
RECURSIVE DigitsLeq(_, _)
DigitsLeq(a, b) ==
    IF Len(a) = 0 THEN TRUE
    ELSE IF DigitVal(a[1]) # DigitVal(b[1]) THEN DigitVal(a[1]) < DigitVal(b[1])
    ELSE DigitsLeq(Tail(a), Tail(b))

\* 2^63 - 1, the largest int sqlite3 binds to a parameter
INT64_MAX ==
    <<"9", "2", "2", "3", "3", "7", "2", "0", "3", "6", "8", "5", "4", "7", "7", "5",
      "8", "0", "7">>

\* the int a word of digits stands for is at most 2^63 - 1
FitsInt64(w) ==
    LET d == StripZeros(w)
    IN  \/ Len(d) < Len(INT64_MAX)
        \/ Len(d) = Len(INT64_MAX) /\ DigitsLeq(d, INT64_MAX)

\* int(w) as a row id: a value of 10 digits or more is beyond every id a table of
\* the model holds and compares like 0, the id no row has
IdOf(w) == IF Len(StripZeros(w)) < 10 THEN NatOf(w) ELSE 0

----------------------------------------------------------------------------
(* Messages handed to the transport *)

\* reply_markup is "" unless the message is sent with one
Msg(to, kind, item, cur, rows) ==
    [to |-> to, kind |-> kind, item |-> item, cur |-> cur, rows |-> rows,
     reply_markup |-> ""]

Plain(to, kind) == Msg(to, kind, 0, NoRow, <<>>)

\* the usage text of /settings, with the "current settings" line built from row u
Usage(to, u) == Msg(to, "usage", 0, u, <<>>)

----------------------------------------------------------------------------
(* Table users *)

DefaultRow ==
    [tz |-> DEFAULT_TZ, start_hour |-> DefaultStartHour, end_hour |-> DefaultEndHour,
     daily_count |-> DefaultDailyCount, exists |-> TRUE]

\* get_user: the table after the lazy INSERT
get_user(us, chat_id) ==
    IF us[chat_id].exists THEN us ELSE [us EXCEPT ![chat_id] = DefaultRow]

\* set_user(chat_id, daily_count=, start_hour=, end_hour=, tz=): one UPDATE,
\* the values stored as given
set_user(us, chat_id, count, start_h, end_h, tz_name) ==
    [us EXCEPT ![chat_id] =
        [tz |-> tz_name, start_hour |-> start_h, end_hour |-> end_h,
         daily_count |-> count, exists |-> TRUE]]

----------------------------------------------------------------------------
(* schedule_today *)

NoCall ==
    [cmd |-> "none", chat |-> 0, now |-> 0, tz |-> "", start_h |-> 0, end_h |-> 0,
     count |-> 0, planned |-> {}, u |-> NoRow]

\* (a target that is not clamped)
TargetUnclamped(count) == count

\* max(1, min(12, count)): the loop's target
Target(count) == Max(MinDailyCount, Min(MaxDailyCount, count))

\* random.randint(start_h, max(start_h, end_h - 1)) draws from this range
HourRange(start_h, end_h) == start_h .. Max(start_h, end_h - 1)

\* the candidate of one draw, for a call that read `now` in zone tz
RunAt(now, tz, hour, minute) == Localize(DateOf(LocalOf(now, tz)), hour, minute, tz)

\* (a test that also keeps a candidate equal to now)
KeepNotEarlier(run_at, now) == run_at >= now

\* `if run_at > now`
Keep(run_at, now) == run_at > now

\* sorted(planned)
RECURSIVE Sorted(_)
Sorted(S) ==
    IF S = {} THEN <<>>
    ELSE LET m == CHOOSE x \in S : \A y \in S : x <= y
         IN <<m>> \o Sorted(S \ {m})

\* scheduler.add_job(send_prompt, DateTrigger(run_date = t), args = [app, chat_id])
add_job(js, chat_id, t) == js (+) SetToBag({[chat |-> chat_id, at |-> t]})

\* for t in sorted(planned): scheduler.add_job(...)
RECURSIVE AddAll(_, _, _)
AddAll(js, chat_id, ts) ==
    IF ts = <<>> THEN js ELSE AddAll(add_job(js, chat_id, Head(ts)), chat_id, Tail(ts))

\* Lines 243-251 of schedule_today, run by command cmd of chat c on table us with
\* messages o already delivered; u is the row the command read when it started.
\* pytz.timezone raises for an unknown zone: /settings answers that with its
\* usage text (except Exception: pass), /start lets it propagate.
EnterPlan(cmd, c, us, o, u) ==
    LET row == get_user(us, c)[c]
    IN  /\ users' = get_user(us, c)
        /\ IF row.tz \in KnownTz
           THEN /\ pc' = "plan"
                /\ h' = [cmd |-> cmd, chat |-> c, now |-> clock, tz |-> row.tz,
                         start_h |-> row.start_hour, end_h |-> row.end_hour,
                         count |-> row.daily_count, planned |-> {}, u |-> u]
                /\ out' = o
                /\ exc' = ""
           ELSE /\ pc' = "idle"
                /\ h' = NoCall
                /\ out' = IF cmd = "settings" THEN Append(o, Usage(c, u)) ELSE o
                /\ exc' = IF cmd = "settings" THEN "" ELSE "UnknownTimeZoneError"

\* one pass of the while-loop with a hour that time(hour, minute) accepts
Draw ==
    /\ pc = "plan"
    /\ Cardinality(h.planned) < Target(h.count)
    /\ \E hour \in HourRange(h.start_h, h.end_h), minute \in MINUTES :
          /\ ValidHour(hour)
          /\ LET run_at == RunAt(h.now, h.tz, hour, minute)
             IN  h' = [h EXCEPT !.planned =
                          IF Keep(run_at, h.now) THEN @ \cup {run_at} ELSE @]
    /\ UNCHANGED <<users, vocab, answers, jobs, clock, pc, out, prompted, exc, IS_PG>>

\* one pass of the while-loop where time(hour, minute) raises ValueError
DrawRaises ==
    /\ pc = "plan"
    /\ Cardinality(h.planned) < Target(h.count)
    /\ \E hour \in HourRange(h.start_h, h.end_h) : ~ValidHour(hour)
    /\ pc' = "idle"
    /\ h' = NoCall
    /\ out' = IF h.cmd = "settings" THEN Append(out, Usage(h.chat, h.u)) ELSE out
    /\ exc' = IF h.cmd = "settings" THEN "" ELSE "ValueError"
    /\ UNCHANGED <<users, vocab, answers, jobs, clock, prompted, IS_PG>>

\* the loop has ended: lines 259-260
Register ==
    /\ pc = "plan"
    /\ ~(Cardinality(h.planned) < Target(h.count))
    /\ jobs' = AddAll(jobs, h.chat, Sorted(h.planned))
    /\ pc' = "idle"
    /\ h' = NoCall
    /\ UNCHANGED <<users, vocab, answers, clock, out, prompted, exc, IS_PG>>

----------------------------------------------------------------------------
(* Handlers that plan *)

\* /start
start(c) ==
    /\ pc = "idle"
    /\ BagCardinality(jobs) < MaxJobs
    /\ EnterPlan("start", c, get_user(users, c), <<>>, NoRow)
    /\ UNCHANGED <<vocab, answers, jobs, clock, prompted, IS_PG>>

W(a) == <<a>>
W2(a, b) == <<a, b>>

\* the argument lists of /settings that are tried
SettingsArgs ==
    { <<W("2"), W2("2", "0")>>,
      <<W("x"), W2("2", "0"), W2("2", "1")>>,
      <<W("2"), W2("2", "0"), W2("2", "1")>>,
      <<W2("5", "0"), W2("2", "5"), W2("3", "0")>>,
      <<W("0"), W2("2", "3"), W2("2", "3"), "Asia/Tashkent">>,
      <<W("2"), W2("2", "0"), W2("2", "1"), "Mars/Base">> }

\* a valid and an out-of-range one of them
SettingsCore ==
    { <<W("2"), W2("2", "0"), W2("2", "1")>>,
      <<W2("5", "0"), W2("2", "5"), W2("3", "0")>> }

\* /settings <count> <start> <end> [timezone]
settings_cmd(c, args) ==
    LET us == get_user(users, c)
        u == us[c]
    IN  /\ pc = "idle"
        /\ BagCardinality(jobs) < MaxJobs
        /\ IF Len(args) >= 3 /\ IsInt(args[1]) /\ IsInt(args[2]) /\ IsInt(args[3])
           THEN LET count == IntOf(args[1])
                    start_h == IntOf(args[2])
                    end_h == IntOf(args[3])
                    tz_name == IF Len(args) >= 4 THEN args[4] ELSE u.tz
                IN  EnterPlan("settings", c,
                              set_user(us, c, count, start_h, end_h, tz_name),
                              <<Plain(c, "updated")>>, u)
           ELSE /\ users' = us
                /\ out' = <<Usage(c, u)>>
                /\ exc' = ""
                /\ UNCHANGED <<pc, h>>
        /\ UNCHANGED <<vocab, answers, jobs, clock, prompted, IS_PG>>

----------------------------------------------------------------------------
(* Table vocab *)

Ids(c) == {i \in 1..Len(vocab) : vocab[i].chat_id = c}
ActiveIds(c) == {i \in Ids(c) : vocab[i].active = 1}

\* add_vocab: strip, return on empty text, else INSERT (strength 0, active 1,
\* last_seen NULL by the schema's defaults)
add_vocab(vs, chat_id, text) ==
    IF Len(Strip(text)) = 0 THEN vs
    ELSE Append(vs, [chat_id |-> chat_id, text |-> Strip(text), last_seen |-> NULL,
                     strength |-> 0, active |-> 1])

\* (an UPDATE without chat_id in its WHERE clause)
remove_vocab_any_owner(vs, chat_id, vid) ==
    [i \in 1..Len(vs) |-> IF i = vid THEN [vs[i] EXCEPT !.active = 0] ELSE vs[i]]

\* (a removal that also resets the item's strength)
remove_vocab_resets(vs, chat_id, vid) ==
    [i \in 1..Len(vs) |->
        IF vs[i].chat_id = chat_id /\ i = vid
        THEN [vs[i] EXCEPT !.active = 0, !.strength = 0]
        ELSE vs[i]]

\* remove_vocab: UPDATE vocab SET active=0 WHERE chat_id=? AND id=?
remove_vocab(vs, chat_id, vid) ==
    [i \in 1..Len(vs) |->
        IF vs[i].chat_id = chat_id /\ i = vid THEN [vs[i] EXCEPT !.active = 0] ELSE vs[i]]

\* list_vocab: ... WHERE chat_id=? AND active=1 ORDER BY id LIMIT ?
list_vocab(vs, chat_id, limit) ==
    LET ids == {i \in 1..Len(vs) : vs[i].chat_id = chat_id /\ vs[i].active = 1}
        all == Sorted(ids)
    IN  SubSeq(all, 1, Min(limit, Len(all)))

\* (a sentinel that sorts after every ISO timestamp)
CoalesceSortsLast(x) == IF x = NULL THEN 9999 * 24 * 60 ELSE x

\* COALESCE(last_seen, '0000'): the text '0000' sorts before every ISO timestamp
Coalesce(x) == IF x = NULL THEN 0 ELSE x

\* row a sorts strictly before row b under
\*   ORDER BY last_seen NULLS FIRST, strength ASC             (PostgreSQL)
BeforePg(a, b) ==
    \/ a.last_seen = NULL /\ b.last_seen # NULL
    \/ a.last_seen # NULL /\ b.last_seen # NULL /\ a.last_seen < b.last_seen
    \/ a.last_seen = b.last_seen /\ a.strength < b.strength

\*   ORDER BY COALESCE(last_seen,'0000'), strength ASC        (SQLite)
BeforeLite(a, b) ==
    \/ Coalesce(a.last_seen) < Coalesce(b.last_seen)
    \/ Coalesce(a.last_seen) = Coalesce(b.last_seen) /\ a.strength < b.strength

\* (a query without active=1 in its WHERE clause)
pick_vocab_removed_too(vs, pg, chat_id) ==
    LET rows == {i \in 1..Len(vs) : vs[i].chat_id = chat_id}
    IN  {i \in rows : \A j \in rows :
            ~(IF pg THEN BeforePg(vs[j], vs[i]) ELSE BeforeLite(vs[j], vs[i]))}

\* pick_vocab: the ids the query can return: the rows of the chat with active=1
\* that no other such row sorts before; RANDOM() orders the rest, LIMIT 1 takes
\* the first.  Empty when fetchone returns None.
pick_vocab(vs, pg, chat_id) ==
    LET rows == {i \in 1..Len(vs) : vs[i].chat_id = chat_id /\ vs[i].active = 1}
    IN  {i \in rows : \A j \in rows :
            ~(IF pg THEN BeforePg(vs[j], vs[i]) ELSE BeforeLite(vs[j], vs[i]))}

----------------------------------------------------------------------------
(* Table answers *)

\* record_answer, first statement: INSERT INTO answers
record_insert(as, chat_id, vocab_id, text, now) ==
    Append(as, [chat_id |-> chat_id, vocab_id |-> vocab_id, text |-> text,
                answered_at |-> now])

\* (an UPDATE without its WHERE clause)
record_update_every_row(vs, vocab_id, now) ==
    [i \in 1..Len(vs) |-> [vs[i] EXCEPT !.last_seen = now, !.strength = @ + 1]]

\* (an UPDATE that adds 2)
record_update_by_two(vs, vocab_id, now) ==
    [i \in 1..Len(vs) |->
        IF i = vocab_id
        THEN [vs[i] EXCEPT !.last_seen = now, !.strength = @ + 2]
        ELSE vs[i]]

\* record_answer, second statement:
\*   UPDATE vocab SET last_seen=?, strength=strength+1 WHERE id=?
record_update(vs, vocab_id, now) ==
    [i \in 1..Len(vs) |->
        IF i = vocab_id
        THEN [vs[i] EXCEPT !.last_seen = now, !.strength = @ + 1]
        ELSE vs[i]]

\* (a SELECT without its WHERE clause)
export_rows_every_chat(as, chat_id) ==
    LET n == Len(as)
    IN  {[k \in 1..n |-> [answered_at |-> as[f[k]].answered_at, text |-> as[f[k]].text]] :
            f \in {g \in [1..n -> 1..n] :
                     /\ \A a, b \in 1..n : a # b => g[a] # g[b]
                     /\ \A a, b \in 1..n :
                           a < b => as[g[a]].answered_at >= as[g[b]].answered_at}}

\* the sequences db_fetchall can return for
\*   SELECT answered_at, text FROM answers WHERE chat_id=? ORDER BY answered_at DESC
\* (rows with equal answered_at come in any order)
export_rows(as, chat_id) ==
    LET mine == {i \in 1..Len(as) : as[i].chat_id = chat_id}
        n == Cardinality(mine)
    IN  {[k \in 1..n |-> [answered_at |-> as[f[k]].answered_at, text |-> as[f[k]].text]] :
            f \in {g \in [1..n -> mine] :
                     /\ \A a, b \in 1..n : a # b => g[a] # g[b]
                     /\ \A a, b \in 1..n :
                           a < b => as[g[a]].answered_at >= as[g[b]].answered_at}}

----------------------------------------------------------------------------
(* The scheduler's timers *)

\* strftime("%H:%M") of instant t in zone tz, as <<hour, minute>>
HM(t, tz) == <<HourOf(LocalOf(t, tz)), MinuteOf(LocalOf(t, tz))>>

HMLeq(a, b) == a[1] < b[1] \/ (a[1] = b[1] /\ a[2] <= b[2])

\* the jobs when_cmd keeps: every job of the store whose next run falls on
\* `today` in zone tz
TodaysJobs(js, tz, today) ==
    [j \in {x \in BagToSet(js) : DateOf(LocalOf(x.at, tz)) = today} |-> js[j]]

\* times.sort() over the kept jobs' "%H:%M" strings
RECURSIVE SortedTimes(_, _)
SortedTimes(js, tz) ==
    IF BagToSet(js) = {} THEN <<>>
    ELSE LET m == CHOOSE x \in BagToSet(js) :
                     \A y \in BagToSet(js) : HMLeq(HM(x.at, tz), HM(y.at, tz))
         IN  <<HM(m.at, tz)>> \o SortedTimes(js (-) SetToBag({m}), tz)

\* when_cmd's list
when_times(js, tz, now) == SortedTimes(TodaysJobs(js, tz, DateOf(LocalOf(now, tz))), tz)

\* /when
when_cmd(c) ==
    LET us == get_user(users, c)
    IN  /\ pc = "idle"
        /\ users' = us
        /\ out' = IF us[c].tz \in KnownTz
                  THEN <<Msg(c, "when", 0, NoRow, when_times(jobs, us[c].tz, clock))>>
                  ELSE <<>>
        /\ exc' = IF us[c].tz \in KnownTz THEN "" ELSE "UnknownTimeZoneError"
        /\ UNCHANGED <<vocab, answers, jobs, clock, pc, h, prompted, IS_PG>>

\* the templates, each the text before and the text after its one {item} field
PROMPTS ==
    { [pre |-> "How was your day? Use **", post |-> "** in a short sentence."],
      [pre |-> "Write one line about your life using **", post |-> "**."],
      [pre |-> "Make a simple daily sentence with **", post |-> "**."] }

\* (a format call that leaves the field empty)
FormatWithoutItem(p, text) == [pre |-> p.pre, item |-> <<>>, post |-> p.post]

\* p.format(item=text): the template's text with text in place of the field
Format(p, text) == [pre |-> p.pre, item |-> text, post |-> p.post]

\* send_prompt(app, chat_id): what it delivers, for the item v it picked (0: none)
\* and the template p it chose
prompt_msg(c, v, p) ==
    IF v = 0 THEN Plain(c, "noitems")
    ELSE [Msg(c, "prompt", v, NoRow, Format(p, vocab[v].text))
             EXCEPT !.reply_markup = "ForceReply"]

\* (a send_prompt that marks the item it shows as seen)
FireMarksSeen(j) ==
    /\ pc = "idle"
    /\ j.at <= clock
    /\ jobs' = jobs (-) SetToBag({j})
    /\ \E v \in (IF pick_vocab(vocab, IS_PG, j.chat) = {} THEN {0}
                 ELSE pick_vocab(vocab, IS_PG, j.chat)), p \in PROMPTS :
          /\ out' = <<prompt_msg(j.chat, v, p)>>
          /\ prompted' = [prompted EXCEPT ![j.chat] = v]
          /\ vocab' = [i \in 1..Len(vocab) |->
                          IF i = v THEN [vocab[i] EXCEPT !.last_seen = clock]
                          ELSE vocab[i]]
    /\ exc' = ""
    /\ UNCHANGED <<users, answers, clock, pc, h, IS_PG>>

\* (a job added without its trigger: it runs as soon as the event loop is free)
FireAtOnce(j) ==
    /\ pc = "idle"
    /\ jobs' = jobs (-) SetToBag({j})
    /\ \E v \in (IF pick_vocab(vocab, IS_PG, j.chat) = {} THEN {0}
                 ELSE pick_vocab(vocab, IS_PG, j.chat)), p \in PROMPTS :
          /\ out' = <<prompt_msg(j.chat, v, p)>>
          /\ prompted' = [prompted EXCEPT ![j.chat] = v]
    /\ exc' = ""
    /\ UNCHANGED <<users, vocab, answers, clock, pc, h, IS_PG>>

\* a timer fires: the job leaves the store and send_prompt runs
Fire(j) ==
    /\ pc = "idle"
    /\ j.at <= clock
    /\ jobs' = jobs (-) SetToBag({j})
    /\ \E v \in (IF pick_vocab(vocab, IS_PG, j.chat) = {} THEN {0}
                 ELSE pick_vocab(vocab, IS_PG, j.chat)), p \in PROMPTS :
          /\ out' = <<prompt_msg(j.chat, v, p)>>
          /\ prompted' = [prompted EXCEPT ![j.chat] = v]
    /\ exc' = ""
    /\ UNCHANGED <<users, vocab, answers, clock, pc, h, IS_PG>>

\* schedule_today's while-loop can neither end nor raise: every candidate that
\* is later than `now` is planned already and the target is not reached
LoopSpins ==
    /\ pc = "plan"
    /\ Cardinality(h.planned) < Target(h.count)
    /\ \A hour \in HourRange(h.start_h, h.end_h) :
          /\ ValidHour(hour)
          /\ \A minute \in MINUTES :
                Keep(RunAt(h.now, h.tz, hour, minute), h.now) =>
                   RunAt(h.now, h.tz, hour, minute) \in h.planned

\* time passes.  Between handlers a due timer fires before the clock moves on.
\* A loop that ends takes no time to speak of; a loop that spins holds the
\* event loop, no timer and no handler runs, and the clock moves on.
Tick ==
    /\ clock < StartClock + 10 * MaxTicks
    /\ \/ pc = "idle" /\ \A j \in BagToSet(jobs) : j.at > clock
       \/ LoopSpins
    /\ clock' = clock + 10
    /\ out' = IF pc = "idle" THEN <<>> ELSE out
    /\ exc' = IF pc = "idle" THEN "" ELSE exc
    /\ UNCHANGED <<users, vocab, answers, jobs, pc, h, prompted, IS_PG>>

----------------------------------------------------------------------------
(* Handlers of the vocabulary and the answers *)

AddTexts == { <<" ">>, <<"a">>, <<" ", "b", " ">> }

\* a blank one and one with blanks around it
AddCore == { <<" ">>, <<" ", "b", " ">> }

\* /add
add_cmd(c, text) ==
    /\ pc = "idle"
    /\ Len(vocab) < MaxVocab
    /\ IF Len(Strip(text)) = 0
       THEN UNCHANGED vocab
       ELSE vocab' = add_vocab(vocab, c, Strip(text))
    /\ out' = <<>>
    /\ exc' = ""
    /\ UNCHANGED <<users, answers, jobs, clock, pc, h, prompted, IS_PG>>

\* the default of list_vocab's limit
ListLimit == 50

\* /list: the ids it shows, or the "list is empty" text
list_cmd(c) ==
    /\ pc = "idle"
    /\ out' = IF list_vocab(vocab, c, ListLimit) = <<>>
              THEN <<Plain(c, "emptylist")>>
              ELSE <<Msg(c, "list", 0, NoRow, list_vocab(vocab, c, ListLimit))>>
    /\ exc' = ""
    /\ UNCHANGED <<users, vocab, answers, jobs, clock, pc, h, prompted, IS_PG>>

\* 99999999999999999999
Nines20 == [i \in 1..20 |-> "9"]

RemoveArgs == { W("1"), W("2"), W("9"), W("x"), Nines20 }

\* /remove <id>.  On SQLite remove_vocab's execute raises OverflowError for an
\* int above 2^63 - 1; psycopg2 sends any int as a literal.
remove_cmd(c, arg) ==
    /\ pc = "idle"
    /\ IF ~IsDigits(arg)
       THEN UNCHANGED vocab /\ exc' = ""
       ELSE IF ~IS_PG /\ ~FitsInt64(arg)
       THEN UNCHANGED vocab /\ exc' = "OverflowError"
       ELSE vocab' = remove_vocab(vocab, c, IdOf(arg)) /\ exc' = ""
    /\ out' = <<>>
    /\ UNCHANGED <<users, answers, jobs, clock, pc, h, prompted, IS_PG>>

ReplyTexts == {"x", "y"}
ReplyCore == {"x"}

\* a text message that is no command; is_reply: it replies to some message
reply_handler(c, is_reply, text) ==
    /\ pc = "idle"
    /\ Len(answers) < MaxAnswers
    /\ IF ~is_reply \/ pick_vocab(vocab, IS_PG, c) = {}
       THEN UNCHANGED <<vocab, answers>>
       ELSE \E vid \in pick_vocab(vocab, IS_PG, c) :
               /\ answers' = record_insert(answers, c, vid, text, clock)
               /\ vocab' = record_update(vocab, vid, clock)
    /\ out' = <<>>
    /\ exc' = ""
    /\ UNCHANGED <<users, jobs, clock, pc, h, prompted, IS_PG>>

\* a reply whose record_answer does not get past its first statement: the
\* INSERT is committed, then the process dies or the UPDATE's db_exec raises
reply_handler_crash(c, text) ==
    /\ pc = "idle"
    /\ Len(answers) < MaxAnswers
    /\ \E vid \in pick_vocab(vocab, IS_PG, c) :
          answers' = record_insert(answers, c, vid, text, clock)
    /\ out' = <<>>
    /\ exc' = "DatabaseError"
    /\ UNCHANGED <<users, vocab, jobs, clock, pc, h, prompted, IS_PG>>

\* /export: the "no answers" text, or answers.csv with the rows in the order
\* the query returned them
export_cmd(c) ==
    /\ pc = "idle"
    /\ \E rows \in export_rows(answers, c) :
          out' = IF rows = <<>>
                 THEN <<Plain(c, "noanswers")>>
                 ELSE <<Msg(c, "export", 0, NoRow, rows)>>
    /\ exc' = ""
    /\ UNCHANGED <<users, vocab, answers, jobs, clock, pc, h, prompted, IS_PG>>

----------------------------------------------------------------------------
(* The bot *)

\* the state main() starts polling in, but for the backend
InitTables ==
    /\ users = [c \in Chats |-> NoRow]
    /\ vocab = <<>>
    /\ answers = <<>>
    /\ jobs = EmptyBag
    /\ clock = StartClock
    /\ pc = "idle"
    /\ h = NoCall
    /\ out = <<>>
    /\ prompted = [c \in Chats |-> 0]
    /\ exc = ""

\* DATABASE_URL unset: SQLite
Init == InitTables /\ IS_PG = FALSE

\* either backend
InitAnyBackend == InitTables /\ IS_PG \in BOOLEAN

\* The whole bot, every handler, used by one chat.
Next ==
    \/ \E c \in Solo : start(c)
    \/ \E c \in Solo, args \in SettingsCore : settings_cmd(c, args)
    \/ Draw
    \/ DrawRaises
    \/ Register
    \/ \E j \in BagToSet(jobs) : Fire(j)
    \/ Tick
    \/ \E c \in Solo : when_cmd(c)
    \/ \E c \in Solo, text \in AddTexts : add_cmd(c, text)
    \/ \E c \in Solo : list_cmd(c)
    \/ \E c \in Solo, arg \in RemoveArgs : remove_cmd(c, arg)
    \/ \E c \in Solo, is_reply \in BOOLEAN, text \in ReplyCore :
          reply_handler(c, is_reply, text)
    \/ \E c \in Solo : export_cmd(c)

Spec == Init /\ [][Next]_vars

\* The scheduling side, used by two chats with every argument list of /settings.
NextSched ==
    \/ \E c \in Chats : start(c)
    \/ \E c \in Chats, args \in SettingsArgs : settings_cmd(c, args)
    \/ Draw
    \/ DrawRaises
    \/ Register
    \/ \E j \in BagToSet(jobs) : Fire(j)
    \/ Tick
    \/ \E c \in Chats : when_cmd(c)

SpecSched == Init /\ [][NextSched]_vars

\* The commands that write the vocabulary and the answers, used by two chats on
\* either backend.
NextStore ==
    \/ Tick
    \/ \E c \in Chats, text \in AddCore : add_cmd(c, text)
    \/ \E c \in Chats, arg \in RemoveArgs : remove_cmd(c, arg)
    \/ \E c \in Chats, is_reply \in BOOLEAN, text \in ReplyCore :
          reply_handler(c, is_reply, text)

SpecStore == InitAnyBackend /\ [][NextStore]_vars

\* The answer log and the commands that read the tables, used by two chats.
NextLog ==
    \/ Tick
    \/ \E c \in Chats, text \in AddCore : add_cmd(c, text)
    \/ \E c \in Chats, is_reply \in BOOLEAN, text \in ReplyTexts :
          reply_handler(c, is_reply, text)
    \/ \E c \in Chats : list_cmd(c)
    \/ \E c \in Chats : export_cmd(c)

SpecLog == Init /\ [][NextLog]_vars

\* The commands that write the vocabulary and the answers, used by one chat,
\* where a record_answer may be interrupted between its two writes.
NextCrash ==
    \/ Tick
    \/ \E c \in Solo, text \in AddCore : add_cmd(c, text)
    \/ \E c \in Solo, arg \in RemoveArgs : remove_cmd(c, arg)
    \/ \E c \in Solo, is_reply \in BOOLEAN, text \in ReplyCore :
          reply_handler(c, is_reply, text)
    \/ \E c \in Solo, text \in ReplyCore : reply_handler_crash(c, text)

SpecCrash == Init /\ [][NextCrash]_vars

----------------------------------------------------------------------------
(* schedule_today alone, on enumerated rows and planning instants *)

\* stored daily_count
PlanCounts == {0, 1, 3, 13}

\* stored <<start_hour, end_hour>>
PlanWindows == { <<10, 12>>, <<10, 13>>, <<11, 10>>, <<0, 2>>, <<23, 25>>, <<-1, 1>> }

\* planning instants, UTC: in Kyiv 09:00, 10:05, 11:30 and 11:50 of day 0,
\* and 00:30 of day 1
PlanNows == {7 * 60, 8 * 60 + 5, 9 * 60 + 30, 9 * 60 + 50, 22 * 60 + 30}

\* /start of chat 1 has reached the while-loop, the row having been stored by
\* an earlier /settings
InitPlan ==
    \E count \in PlanCounts, w \in PlanWindows, now \in PlanNows, tz \in KnownTz :
       /\ users = [c \in Chats |->
                     IF c = 1
                     THEN [tz |-> tz, start_hour |-> w[1], end_hour |-> w[2],
                           daily_count |-> count, exists |-> TRUE]
                     ELSE NoRow]
       /\ vocab = <<>>
       /\ answers = <<>>
       /\ jobs = EmptyBag
       /\ clock = now
       /\ pc = "plan"
       /\ h = [cmd |-> "start", chat |-> 1, now |-> now, tz |-> tz,
               start_h |-> w[1], end_h |-> w[2], count |-> count,
               planned |-> {}, u |-> NoRow]
       /\ out = <<>>
       /\ prompted = [c \in Chats |-> 0]
       /\ exc = ""
       /\ IS_PG = FALSE

NextPlan ==
    \/ Draw
    \/ DrawRaises
    \/ Register

SpecPlan == InitPlan /\ [][NextPlan]_vars

----------------------------------------------------------------------------
(* Claims about schedule_today (planDay), checked under SpecPlan *)

\* clamp(count, 1, 12)
ClampCount(count) == IF count < 1 THEN 1 ELSE IF count > 12 THEN 12 ELSE count

\* the candidate times of a call that are later than its planning instant
FutureCandidates(call) ==
    {t \in {RunAt(call.now, call.tz, hour, minute) :
               hour \in HourRange(call.start_h, call.end_h) \cap (0..23),
               minute \in MINUTES} : t > call.now}

\* a pass of the loop that adds a timestamp
DrawAdds == Draw /\ h'.planned # h.planned

\* C1: planDay terminates for every stored row and every planning instant: a
\* running call is never in a state where no pass of its loop can change
\* anything, i.e. it can always end its loop, raise, or add a timestamp.
C1_PlanDayTerminates ==
    pc = "plan" => ENABLED (Register \/ DrawRaises \/ DrawAdds)

C3_RegisteredTimersInWindow ==
    [][(pc = "plan" /\ jobs' # jobs) =>
          \A j \in BagToSet(jobs' (-) jobs) :
             LET local == LocalOf(j.at, h.tz)
             IN  /\ j.at > h.now
                 /\ DateOf(local) = DateOf(LocalOf(h.now, h.tz))
                 /\ HourOf(local) >= h.start_h
                 /\ HourOf(local) <= Max(h.start_h, h.end_h - 1)
                 /\ (h.end_h <= h.start_h => HourOf(local) = h.start_h)
                 /\ MinuteOf(local) \in {5, 15, 25, 35, 45}]_vars

\* C3's case: timers registered for a window with end_hour <= start_hour
C3_Witness ==
    /\ pc = "idle"
    /\ jobs # EmptyBag
    /\ users[1].end_hour <= users[1].start_hour

----------------------------------------------------------------------------
(* Claims about /when and /settings, checked under SpecSched *)

\* the jobs of the store that were registered for chat c
OwnJobs(js, c) == [j \in {x \in BagToSet(js) : x.chat = c} |-> js[j]]

\* C8: upcomingToday(userId) returns exactly the times of the registered,
\* not yet fired timers of that user that fall on the user's current local
\* day, sorted ascending; another user's timer never appears in it.
C8_WhenListsOwnTimers ==
    \A i \in 1..Len(out) :
       out[i].kind = "when" =>
          out[i].rows = when_times(OwnJobs(jobs, out[i].to), users[out[i].to].tz, clock)

\* C9: a settings change answered with the usage message has mutated nothing:
\* the stored row of the chat is the row the command read when it started, the
\* one whose values the usage message shows as current (stated here for the
\* rows with a zone pytz knows only).
C9_RejectedSettingsMutateNothing ==
    \A i \in 1..Len(out) :
       (out[i].kind = "usage" /\ users[out[i].to].tz \in KnownTz) =>
          users[out[i].to] = out[i].cur

\* C10: every stored row of users has daily_count in 1..12 and both hours in
\* 0..23.
C10_StoredRowsInRange ==
    \A c \in Chats :
       users[c].exists =>
          /\ users[c].daily_count \in 1..12
          /\ users[c].start_hour \in 0..23
          /\ users[c].end_hour \in 0..23

----------------------------------------------------------------------------
(* Claims about the vocabulary and the answers *)

\* C4: pick(owner) returns nothing iff the owner has no active item; otherwise
\* what it returns is an active item of the owner such that no other active
\* item of the owner is never seen while it has been seen, or has a strictly
\* older last_seen, or has the same last_seen and a strictly lower strength.
\* (SpecStore)
C4_PickReturnsMinimal ==
    \A c \in Chats :
       LET picked == pick_vocab(vocab, IS_PG, c)
           act == {i \in 1..Len(vocab) : vocab[i].chat_id = c /\ vocab[i].active = 1}
       IN  /\ (picked = {}) <=> (act = {})
           /\ \A v \in picked :
                 /\ v \in act
                 /\ \A w \in act :
                       /\ ~(vocab[w].last_seen = NULL /\ vocab[v].last_seen # NULL)
                       /\ ~(/\ vocab[w].last_seen # NULL
                            /\ vocab[v].last_seen # NULL
                            /\ vocab[w].last_seen < vocab[v].last_seen)
                       /\ ~(/\ vocab[w].last_seen = vocab[v].last_seen
                            /\ vocab[w].strength < vocab[v].strength)

\* C4's case: on SQLite a chat holds a seen and a never-seen active item, and
\* pick returns the never-seen one
C4_Witness ==
    /\ ~IS_PG
    /\ \E c \in Chats : \E v, w \in ActiveIds(c) :
          /\ vocab[v].last_seen = NULL
          /\ vocab[w].last_seen # NULL
          /\ pick_vocab(vocab, IS_PG, c) = {v}

\* C5: an Answer is recorded against the item the most recent Dispatch for
\* that user prompted.  (Spec)
C5_ReplyRecordedAgainstPrompted ==
    [][answers' # answers =>
          LET a == answers'[Len(answers')]
          IN  prompted[a.chat_id] # 0 => a.vocab_id = prompted[a.chat_id]]_vars

\* C6: record(u, v, text) appends exactly one Answer row with the current
\* instant, adds exactly 1 to the strength of item v, sets v's last_seen to
\* that instant, which is not before v's previous last_seen, and changes no
\* other item and nothing else of v.  (SpecStore)
C6_RecordEffect ==
    [][answers' # answers =>
          /\ Len(answers') = Len(answers) + 1
          /\ SubSeq(answers', 1, Len(answers)) = answers
          /\ LET a == answers'[Len(answers')]
                 v == a.vocab_id
             IN  /\ a.answered_at = clock
                 /\ a.chat_id \in Chats
                 /\ a.text \in ReplyCore
                 /\ v \in 1..Len(vocab)
                 /\ Len(vocab') = Len(vocab)
                 /\ vocab'[v].strength = vocab[v].strength + 1
                 /\ vocab'[v].last_seen = a.answered_at
                 /\ vocab[v].last_seen # NULL => vocab'[v].last_seen >= vocab[v].last_seen
                 /\ vocab'[v] = [vocab[v] EXCEPT !.strength = vocab'[v].strength,
                                                 !.last_seen = vocab'[v].last_seen]
                 /\ \A i \in 1..Len(vocab) : i # v => vocab'[i] = vocab[i]]_vars

\* C6's case: an item answered twice, beside an item never answered
C6_Witness ==
    \E v, w \in 1..Len(vocab) :
       vocab[v].strength = 2 /\ vocab[w].strength = 0 /\ Len(answers) = 2

\* C7: over every step of the bot the strength of an item never decreases and
\* its last_seen, once set, is never unset and never decreases; the two change
\* only in a step that records an answer; a step that changes active changes
\* nothing else of the item, and a step that registers or fires timers changes
\* no item.  (Spec)
C7_StrengthLastSeenMonotone ==
    [][/\ Len(vocab') >= Len(vocab)
       /\ jobs' # jobs => vocab' = vocab
       /\ \A i \in 1..Len(vocab) :
             /\ vocab'[i].strength >= vocab[i].strength
             /\ vocab[i].last_seen # NULL =>
                   vocab'[i].last_seen # NULL /\ vocab'[i].last_seen >= vocab[i].last_seen
             /\ (\/ vocab'[i].strength # vocab[i].strength
                 \/ vocab'[i].last_seen # vocab[i].last_seen) => answers' # answers
             /\ vocab'[i].active # vocab[i].active =>
                   vocab'[i] = [vocab[i] EXCEPT !.active = vocab'[i].active]]_vars

\* C7's case: an answered item has been removed and a Dispatch has prompted
C7_Witness ==
    /\ prompted[1] # 0
    /\ \E i \in 1..Len(vocab) :
          vocab[i].active = 0 /\ vocab[i].strength >= 1 /\ vocab[i].last_seen # NULL

----------------------------------------------------------------------------
(* Claims about the vocabulary store's operations *)

\* C11: remove(owner, id) is an idempotent soft delete: a removed item is never
\* active again, so no later list or pick of any chat returns it; no row is
\* ever deleted; and a /remove with a number, whether the id exists or not and
\* whether it was removed before or not, raises no error and leaves the store
\* as a second removal of the same id would.  (SpecStore)
C11_RemoveIsIdempotentSoftDelete ==
    [][/\ Len(vocab') >= Len(vocab)
       /\ \A i \in 1..Len(vocab) :
             vocab[i].active = 0 =>
                /\ vocab'[i].active = 0
                /\ \A c \in Chats :
                      /\ i \notin pick_vocab(vocab', IS_PG', c)
                      /\ \A k \in 1..Len(list_vocab(vocab', c, ListLimit)) :
                            list_vocab(vocab', c, ListLimit)[k] # i
       /\ \A c \in Chats, arg \in RemoveArgs :
             (remove_cmd(c, arg) /\ IsDigits(arg)) =>
                /\ exc' = ""
                /\ remove_vocab(vocab', c, IdOf(arg)) = vocab']_vars

\* a text of blanks only (the empty text included)
Blank(text) == \A i \in 1..Len(text) : text[i] = " "

\* t is text without its leading and trailing blanks
TrimOf(t, text) ==
    /\ Len(t) > 0
    /\ t[1] # " "
    /\ t[Len(t)] # " "
    /\ \E a \in 0..Len(text) :
          /\ a + Len(t) <= Len(text)
          /\ SubSeq(text, a + 1, a + Len(t)) = t
          /\ Blank(SubSeq(text, 1, a))
          /\ Blank(SubSeq(text, a + Len(t) + 1, Len(text)))

\* C12: add(owner, text) with an empty or all-blank text leaves table vocab
\* unchanged and raises nothing; with any other text it inserts exactly one
\* row, after every existing row (its id is greater than every existing id),
\* for that owner, with the trimmed text, strength 0, last_seen NULL and
\* active 1, and leaves the existing rows as they were.  (SpecStore)
C12_AddEffect ==
    [][\A c \in Chats, text \in AddCore :
          add_cmd(c, text) =>
             /\ exc' = ""
             /\ answers' = answers
             /\ IF Blank(text)
                THEN vocab' = vocab
                ELSE /\ Len(vocab') = Len(vocab) + 1
                     /\ SubSeq(vocab', 1, Len(vocab)) = vocab
                     /\ \A i \in 1..Len(vocab) : Len(vocab') > i
                     /\ LET v == vocab'[Len(vocab')]
                        IN  /\ v.chat_id = c
                            /\ TrimOf(v.text, text)
                            /\ v.strength = 0
                            /\ v.last_seen = NULL
                            /\ v.active = 1]_vars

\* C12's case: a text with blanks around it was added after another item
C12_Witness ==
    /\ Len(vocab) = 2
    /\ vocab[2].text = <<"b">>
    /\ vocab[2].strength = 0 /\ vocab[2].last_seen = NULL /\ vocab[2].active = 1

----------------------------------------------------------------------------
(* Claims about the answer log *)

\* the rows of table answers of chat c, in the order they were inserted
OwnAnswers(as, c) == SelectSeq(as, LAMBDA a : a.chat_id = c)

\* C13: the answer log is append-only (no step changes or deletes a row), and
\* an export of an owner with N recorded answers returns exactly N rows, which
\* are that owner's rows, each once, with their recorded text and timestamp, in
\* descending order of answered_at; an owner with no answer gets no file.
\* (SpecLog)
C13_ExportRoundTrip ==
    [][/\ Len(answers') >= Len(answers)
       /\ SubSeq(answers', 1, Len(answers)) = answers
       /\ \A i \in 1..Len(out') :
             /\ out'[i].kind = "noanswers" => OwnAnswers(answers', out'[i].to) = <<>>
             /\ out'[i].kind = "export" =>
                   LET rows == out'[i].rows
                       own == OwnAnswers(answers', out'[i].to)
                       n == Len(own)
                   IN  /\ n > 0
                       /\ Len(rows) = n
                       /\ \A a, b \in 1..n :
                             a < b => rows[a].answered_at >= rows[b].answered_at
                       /\ \E f \in [1..n -> 1..n] :
                             /\ \A a, b \in 1..n : a # b => f[a] # f[b]
                             /\ \A k \in 1..n :
                                   /\ rows[k].answered_at = own[f[k]].answered_at
                                   /\ rows[k].text = own[f[k]].text]_vars

\* C13's case: an export of two answers recorded at different instants, while
\* the other chat has an answer too
C13_Witness ==
    /\ Len(answers) = 3
    /\ \E i \in 1..Len(out) :
          /\ out[i].kind = "export"
          /\ Len(out[i].rows) = 2
          /\ out[i].rows[1].answered_at > out[i].rows[2].answered_at

----------------------------------------------------------------------------
(* Claims about the timers *)

\* C14: planning again does not cancel timers: a registered timer leaves the
\* store only by firing, one at a time and not before its instant; the end of
\* a schedule_today call keeps every timer that was registered and adds its
\* own; and the clock does not pass a registered timer's instant without the
\* timer firing.  So a chat can hold more timers than clamp(daily_count,1,12).
\* (SpecSched)
C14_ReplanKeepsTimers ==
    [][/\ \A j \in BagToSet(jobs) :
             CopiesIn(j, jobs') < CopiesIn(j, jobs) =>
                /\ pc = "idle"
                /\ j.at <= clock
                /\ jobs' = jobs (-) SetToBag({j})
                /\ Len(out') = 1 /\ out'[1].to = j.chat
       /\ (pc = "plan" /\ pc' = "idle") => jobs \sqsubseteq jobs'
       /\ clock' # clock => \A j \in BagToSet(jobs) : j.at > clock]_vars

\* C14's case: after a second plan chat 1 holds more timers than its
\* clamp(daily_count,1,12), the same instant twice among them
C14_Witness ==
    /\ pc = "idle"
    /\ BagCardinality(OwnJobs(jobs, 1)) > ClampCount(users[1].daily_count)
    /\ \E j \in BagToSet(jobs) : j.chat = 1 /\ jobs[j] = 2

\* C15: a timer does not fire before its instant; a firing takes exactly one
\* registered timer out of the store, so each fires at most once; and when a
\* timer fires no timer of the same chat with an earlier instant is still
\* waiting.  (SpecSched)
C15_TimersFireInOrder ==
    [][\A j \in BagToSet(jobs) :
          CopiesIn(j, jobs') < CopiesIn(j, jobs) =>
             /\ j.at <= clock
             /\ CopiesIn(j, jobs') = CopiesIn(j, jobs) - 1
             /\ BagCardinality(jobs') = BagCardinality(jobs) - 1
             /\ \A k \in BagToSet(jobs) : k.chat = j.chat => k.at >= j.at]_vars

\* C15's case: a timer of chat 1 has fired while a later one of chat 1 waits
C15_Witness ==
    /\ \E i \in 1..Len(out) : out[i].kind \in {"prompt", "noitems"} /\ out[i].to = 1
    /\ \E j \in BagToSet(jobs) : j.chat = 1 /\ j.at > clock

----------------------------------------------------------------------------
(* Claims about send_prompt (Dispatch) *)

\* C16: a timer fire delivers exactly one message, to the timer's chat: the
\* "no items" notice, with no reply asked for, iff the chat has no active
\* item when the timer fires; otherwise one of the prompt templates with the
\* text of an item that pick returns at that moment in its field, sent with a
\* forced reply.  (Spec)
C16_DispatchDeliversOneMessage ==
    [][\A j \in BagToSet(jobs) :
          CopiesIn(j, jobs') < CopiesIn(j, jobs) =>
             /\ Len(out') = 1
             /\ out'[1].to = j.chat
             /\ IF ActiveIds(j.chat) = {}
                THEN out'[1].kind = "noitems" /\ out'[1].reply_markup = ""
                ELSE /\ out'[1].kind = "prompt"
                     /\ out'[1].reply_markup = "ForceReply"
                     /\ out'[1].item \in pick_vocab(vocab, IS_PG, j.chat)
                     /\ out'[1].rows.item = vocab[out'[1].item].text
                     /\ [pre |-> out'[1].rows.pre, post |-> out'[1].rows.post]
                           \in PROMPTS]_vars

\* C16's case: with an answered item 1 still active, a fire prompts item 2,
\* which was added after the timers were planned or not
C16_Witness ==
    /\ Len(vocab) = 2
    /\ vocab[1].active = 1 /\ vocab[1].last_seen # NULL
    /\ \E i \in 1..Len(out) :
          out[i].kind = "prompt" /\ out[i].item = 2 /\ out[i].rows.item = vocab[2].text

\* C18: a timer fire changes no row of any table; and a step that records no
\* answer and adds and removes no item leaves pick's result for every chat as
\* it was, so successive fires choose from the same minimal items.  (Spec)
C18_DispatchChangesNoState ==
    [][/\ (\E j \in BagToSet(jobs) : CopiesIn(j, jobs') < CopiesIn(j, jobs)) =>
             /\ vocab' = vocab
             /\ answers' = answers
             /\ users' = users
       /\ (/\ answers' = answers
           /\ Len(vocab') = Len(vocab)
           /\ \A i \in 1..Len(vocab) : vocab'[i].active = vocab[i].active) =>
             \A c \in Chats :
                pick_vocab(vocab', IS_PG', c) = pick_vocab(vocab, IS_PG, c)]_vars

\* C18's case: the last of the day's timers has prompted an item that is
\* still unseen, with no answer recorded
C18_Witness ==
    /\ clock = StartClock + 20
    /\ jobs = EmptyBag
    /\ answers = <<>>
    /\ \E i \in 1..Len(out) :
          /\ out[i].kind = "prompt"
          /\ vocab[out[i].item].last_seen = NULL
          /\ vocab[out[i].item].strength = 0

----------------------------------------------------------------------------
(* Claims about record_answer's two writes *)

\* the number of rows of table answers whose vocab_id is v
AnswerCount(as, v) == Cardinality({i \in 1..Len(as) : as[i].vocab_id = v})

\* C17: in every reachable state, the states after a record_answer that did not
\* get past its INSERT included, the strength of every item is at most the
\* number of answers recorded against it; and the difference of the two is 0
\* for a new item and grows only in such an interrupted record_answer, by one,
\* so that the two are equal when every record_answer ran both writes.
\* (SpecCrash)
C17_StrengthAtMostAnswers ==
    /\ [](\A v \in 1..Len(vocab) : vocab[v].strength <= AnswerCount(answers, v))
    /\ [][/\ \A v \in (Len(vocab) + 1)..Len(vocab') :
                vocab'[v].strength = 0 /\ AnswerCount(answers', v) = 0
          /\ \A v \in 1..Len(vocab) :
                LET gap == AnswerCount(answers, v) - vocab[v].strength
                    gap2 == AnswerCount(answers', v) - vocab'[v].strength
                IN  gap2 # gap =>
                       /\ gap2 = gap + 1
                       /\ vocab' = vocab
                       /\ Len(answers') = Len(answers) + 1
                       /\ exc' # ""]_vars

\* C17's case: an item with two answers, one of them from a record_answer that
\* did not reach its UPDATE
C17_Witness ==
    \E v \in 1..Len(vocab) : vocab[v].strength = 1 /\ AnswerCount(answers, v) = 2

----------------------------------------------------------------------------
(* Claims about ownership *)

\* C19: every answer a reply records has the vocab_id of an existing item that
\* belongs to the chat that replied and is active when the answer is
\* recorded; a reply of a chat with no active item records no answer and
\* changes no item.  (SpecStore)
C19_AnswerRefersToOwnActiveItem ==
    [][/\ answers' # answers =>
             LET a == answers'[Len(answers')]
             IN  /\ a.vocab_id \in 1..Len(vocab)
                 /\ vocab[a.vocab_id].chat_id = a.chat_id
                 /\ vocab[a.vocab_id].active = 1
       /\ \A c \in Chats :
             ActiveIds(c) = {} =>
                \A is_reply \in BOOLEAN, text \in ReplyCore :
                   reply_handler(c, is_reply, text) =>
                      /\ answers' = answers
                      /\ vocab' = vocab
                      /\ exc' = ""]_vars

\* C19's case: a chat whose one item was removed holds an answer for it, the
\* other chat has an active item, and the last answer is the other chat's
C19_Witness ==
    /\ Len(answers) >= 2
    /\ \E c \in Chats :
          /\ ActiveIds(c) = {}
          /\ \E i \in 1..Len(answers) : answers[i].chat_id = c
          /\ answers[Len(answers)].chat_id # c

\* the rows of a table (a sequence of rows) that belong to a chat other than c,
\* with their ids
RowsOfOthers(t, c) == {<<i, t[i]>> : i \in {k \in 1..Len(t) : t[k].chat_id # c}}

\* C20: /add, /remove and a reply of chat A leave every item and every answer
\* of every other chat as it was and create none for another chat: a /remove
\* with the id of another chat's item leaves that item active, and a reply
\* never changes strength or last_seen of another chat's item.  (SpecStore)
C20_OwnerIsolation ==
    [][\A c \in Chats :
          \/ /\ RowsOfOthers(vocab', c) = RowsOfOthers(vocab, c)
             /\ RowsOfOthers(answers', c) = RowsOfOthers(answers, c)
          \/ ~(\/ \E text \in AddCore : add_cmd(c, text)
               \/ \E arg \in RemoveArgs : remove_cmd(c, arg)
               \/ \E is_reply \in BOOLEAN, text \in ReplyCore :
                     reply_handler(c, is_reply, text))]_vars

\* C20's case: chat 1 has an answered item and chat 2 an active item, after
\* chat 1 removed its own item
C20_Witness ==
    /\ Len(vocab) = 2
    /\ vocab[1].chat_id # vocab[2].chat_id
    /\ vocab[1].active = 0 /\ vocab[1].strength >= 1
    /\ vocab[2].active = 1 /\ vocab[2].strength = 0

====
